---------------------------- MODULE Spec2Model ----------------------------
(***************************************************************************)
(* QEMaker: the free-text quiz parser (src/utils/parseQuiz.ts), the store  *)
(* operations of src/lib/db.ts that create, serve and grade quizzes, and   *)
(* the student quiz-taking page (src/pages/student/TakeQuizPage.tsx).      *)
(*                                                                         *)
(* Text is a sequence of one-character strings, so that the regular        *)
(* expressions of the source are computed character by character.          *)
(***************************************************************************)
EXTENDS Integers, Sequences, FiniteSets, TLC

VARIABLES
    rawText,        \* parseQuiz: the argument of the call
    parsed,         \* parseQuiz: the returned Question[]
    parseState,     \* "input" before the call, "returned" after it
    parseError,     \* CreateQuizPage: useState parseError
    created,        \* the rows createQuiz has inserted into table quizzes
    quizRow,        \* the row of the quiz in table quizzes
    submissions,    \* table submissions, in insertion order
    lastCall,       \* the last direct call of submitQuiz and how it ended
    \* TakeQuizPage, one value for each browser tab that shows it
    phase,          \* useState phase; "closed" while the tab is not open,
                    \* "result" once it has navigated to the result page
    quiz,           \* useState quiz
    info,           \* useState info: the email typed (the other fields are filled)
    answers,        \* useState answers
    attemptCount,   \* useState attemptCount
    infoErrors,     \* useState infoErrors.email
    errorMsg,       \* useState errorMsg
    submitError,    \* useState submitError
    timeLeft,       \* useState timeLeft
    timerRef,       \* timerRef.current holds a running interval
    pending,        \* the call of submitQuiz the tab awaits, and its step
    localStorage,   \* the entries of this quiz in the browser's local storage
    now             \* Date.now(), in seconds

parseVars == <<rawText, parsed, parseState, parseError, created>>

storeVars == <<quizRow, submissions>>

tabVars ==
    <<phase, quiz, info, answers, attemptCount, infoErrors, errorMsg, submitError,
      timeLeft, timerRef, pending, localStorage, now>>

vars ==
    <<rawText, parsed, parseState, parseError, created, quizRow, submissions, lastCall,
      phase, quiz, info,
      answers, attemptCount, infoErrors, errorMsg, submitError, timeLeft, timerRef,
      pending, localStorage, now>>

-----------------------------------------------------------------------------
(* Characters and strings                                                  *)

WhiteSpace == {" ", "\t", "\n", "\r"}

LineTerminators == {"\n", "\r"}

Digits == {"0", "1", "2", "3", "4", "5", "6", "7", "8", "9"}

UpperCase == <<"A", "B", "C", "D", "E", "O", "P", "Q", "R", "T", "X">>

LowerCase == <<"a", "b", "c", "d", "e", "o", "p", "q", "r", "t", "x">>

\* String.prototype.toLowerCase, one character
LowerChar(c) ==
    IF \E i \in 1..Len(UpperCase) : UpperCase[i] = c
    THEN LowerCase[CHOOSE i \in 1..Len(UpperCase) : UpperCase[i] = c]
    ELSE c

\* String.prototype.toLowerCase
toLowerCase(s) == [i \in 1..Len(s) |-> LowerChar(s[i])]

RECURSIVE trimStart(_)
trimStart(s) ==
    IF s # <<>> /\ Head(s) \in WhiteSpace THEN trimStart(Tail(s)) ELSE s

RECURSIVE trimEnd(_)
trimEnd(s) ==
    IF s # <<>> /\ s[Len(s)] \in WhiteSpace
    THEN trimEnd(SubSeq(s, 1, Len(s) - 1))
    ELSE s

\* String.prototype.trim
trim(s) == trimEnd(trimStart(s))

\* the value JavaScript writes `undefined` (an absent correctAnswer)
Undefined == "undefined"

-----------------------------------------------------------------------------
(* parseQuiz (src/utils/parseQuiz.ts)                                      *)

\* the end of the run of '=' that starts at i
RECURSIVE RunEnd(_, _)
RunEnd(text, i) ==
    IF i + 1 <= Len(text) /\ text[i + 1] = "=" THEN RunEnd(text, i + 1) ELSE i

\* rawText.split(/={3,}/g): cur is the piece being read, acc the pieces read
RECURSIVE SplitSeparators(_, _, _, _)
SplitSeparators(text, i, cur, acc) ==
    IF i > Len(text) THEN Append(acc, cur)
    ELSE IF i + 2 <= Len(text) /\ text[i] = "=" /\ text[i + 1] = "="
                               /\ text[i + 2] = "="
         THEN SplitSeparators(text, RunEnd(text, i) + 1, <<>>, Append(acc, cur))
         ELSE SplitSeparators(text, i + 1, Append(cur, text[i]), acc)

\* block.split('\n')
RECURSIVE SplitNewlines(_, _, _, _)
SplitNewlines(text, i, cur, acc) ==
    IF i > Len(text) THEN Append(acc, cur)
    ELSE IF text[i] = "\n"
         THEN SplitNewlines(text, i + 1, <<>>, Append(acc, cur))
         ELSE SplitNewlines(text, i + 1, Append(cur, text[i]), acc)

\* .map(x => x.trim()).filter(Boolean)
TrimAndFilter(pieces) ==
    SelectSeq([i \in 1..Len(pieces) |-> trim(pieces[i])], LAMBDA p : p # <<>>)

\* lines 18-21
Blocks(text) == TrimAndFilter(SplitSeparators(text, 1, <<>>, <<>>))

\* lines 26-29
Lines(block) == TrimAndFilter(SplitNewlines(block, 1, <<>>, <<>>))

\* the length of the longest prefix of digits: \d+ is greedy and what follows
\* it, [.)], is no digit
RECURSIVE DigitPrefix(_)
DigitPrefix(l) ==
    IF l # <<>> /\ Head(l) \in Digits THEN 1 + DigitPrefix(Tail(l)) ELSE 0

\* \s*.+ at the start of r: after some of the leading white space, one
\* character that is no line terminator
SpaceThenSome(r) ==
    \E j \in 1..Len(r) :
        /\ \A k \in 1..(j - 1) : r[k] \in WhiteSpace
        /\ r[j] \notin LineTerminators

QuestionDelimiters == {".", ")"}

\* /^\d+[.)]\s*.+/.test(l)
IsQuestionLine(l) ==
    LET n == DigitPrefix(l) IN
    /\ n >= 1
    /\ Len(l) >= n + 1
    /\ l[n + 1] \in QuestionDelimiters
    /\ SpaceThenSome(SubSeq(l, n + 2, Len(l)))

\* a findIndex whose "not found" is taken for the first line
FindQuestionLineOrFirst(lines) ==
    IF \E i \in 1..Len(lines) : IsQuestionLine(lines[i])
    THEN CHOOSE i \in 1..Len(lines) :
            /\ IsQuestionLine(lines[i])
            /\ \A j \in 1..(i - 1) : ~IsQuestionLine(lines[j])
    ELSE 1

\* lines.findIndex(...): the 1-based index of the first question line, 0 for
\* the -1 of the source
FindQuestionLine(lines) ==
    IF \E i \in 1..Len(lines) : IsQuestionLine(lines[i])
    THEN CHOOSE i \in 1..Len(lines) :
            /\ IsQuestionLine(lines[i])
            /\ \A j \in 1..(i - 1) : ~IsQuestionLine(lines[j])
    ELSE 0

\* the question line kept with its typed numeral
QuestionTextUnstripped(l) == trim(l)

\* lines[qIdx].replace(/^\d+[.)]\s*/, '').trim()
QuestionText(l) ==
    LET n == DigitPrefix(l) IN
    IF n >= 1 /\ Len(l) >= n + 1 /\ l[n + 1] \in QuestionDelimiters
    THEN trim(trimStart(SubSeq(l, n + 2, Len(l))))
    ELSE trim(l)

OptionLetters == {"a", "b", "c", "d", "A", "B", "C", "D"}

\* lines[i].match(/^([a-dA-D])[.)]\s*(.+)/) is not null
OptionMatches(l) ==
    /\ Len(l) >= 3
    /\ l[1] \in OptionLetters
    /\ l[2] \in QuestionDelimiters
    /\ SpaceThenSome(SubSeq(l, 3, Len(l)))

\* m[2]: \s* is greedy and gives back white space only when nothing else is
\* left for .+ ; .+ stops at a line terminator
RECURSIVE UpToTerminator(_)
UpToTerminator(r) ==
    IF r = <<>> \/ Head(r) \in LineTerminators THEN <<>>
    ELSE <<Head(r)>> \o UpToTerminator(Tail(r))

OptionRest(l) ==
    LET r == SubSeq(l, 3, Len(l))
        t == trimStart(r)
    IN IF t # <<>> THEN UpToTerminator(t) ELSE <<r[Len(r)]>>

CorrectWord == <<"c", "o", "r", "r", "e", "c", "t">>

\* s matches ^\s*-?\s*correct\s*$ (flag i)
MarkerTail(s) ==
    LET a == trimStart(s)
        b == IF a # <<>> /\ Head(a) = "-" THEN Tail(a) ELSE a
        c == trimStart(b)
    IN /\ Len(c) >= Len(CorrectWord)
       /\ toLowerCase(SubSeq(c, 1, Len(CorrectWord))) = CorrectWord
       /\ trimStart(SubSeq(c, Len(CorrectWord) + 1, Len(c))) = <<>>

\* s matches ^\s*correct\s*$ : a marker pattern that lost its hyphen
MarkerTailNoHyphen(s) ==
    LET c == trimStart(s)
    IN /\ Len(c) >= Len(CorrectWord)
       /\ toLowerCase(SubSeq(c, 1, Len(CorrectWord))) = CorrectWord
       /\ trimStart(SubSeq(c, Len(CorrectWord) + 1, Len(c))) = <<>>

\* a test that wants the hyphen before the word
HasMarkerHyphenated(text) ==
    \E i \in 1..(Len(text) + 1) :
        /\ MarkerTail(SubSeq(text, i, Len(text)))
        /\ trimStart(SubSeq(text, i, Len(text)))[1] = "-"

\* /\s*-?\s*correct\s*$/i.test(text)
HasMarker(text) ==
    \E i \in 1..(Len(text) + 1) : MarkerTail(SubSeq(text, i, Len(text)))

\* the marker removed by a pattern that lost its hyphen, /\s*correct\s*$/i
StripMarkerNoHyphen(text) ==
    LET i == CHOOSE i \in 1..(Len(text) + 1) :
                /\ MarkerTailNoHyphen(SubSeq(text, i, Len(text)))
                /\ \A j \in 1..(i - 1) : ~MarkerTailNoHyphen(SubSeq(text, j, Len(text)))
    IN trim(SubSeq(text, 1, i - 1))

\* text.replace(/\s*-?\s*correct\s*$/i, '').trim(): the leftmost match is
\* removed (it reaches the end of the text)
StripMarker(text) ==
    LET i == CHOOSE i \in 1..(Len(text) + 1) :
                /\ MarkerTail(SubSeq(text, i, Len(text)))
                /\ \A j \in 1..(i - 1) : ~MarkerTail(SubSeq(text, j, Len(text)))
    IN trim(SubSeq(text, 1, i - 1))

\* an option line that leaves alone a correctAnswer already set
OptionStepFirstWins(acc, l) ==
    LET label == LowerChar(l[1])
        text  == trim(OptionRest(l))
    IN IF HasMarker(text)
       THEN [options       |-> Append(acc.options,
                                      [label |-> label, text |-> StripMarker(text)]),
             correctAnswer |-> IF acc.correctAnswer = Undefined THEN label
                               ELSE acc.correctAnswer]
       ELSE [options       |-> Append(acc.options, [label |-> label, text |-> text]),
             correctAnswer |-> acc.correctAnswer]

\* lines 44-55, one matching option line: the state of the loop is
\* [options, correctAnswer]
OptionStep(acc, l) ==
    LET label == LowerChar(l[1])
        text  == trim(OptionRest(l))
    IN IF HasMarker(text)
       THEN [options       |-> Append(acc.options,
                                      [label |-> label, text |-> StripMarker(text)]),
             correctAnswer |-> label]
       ELSE [options       |-> Append(acc.options, [label |-> label, text |-> text]),
             correctAnswer |-> acc.correctAnswer]

\* lines 43-56: for (let i = qIdx + 1; i < lines.length; i++)
RECURSIVE OptionLoop(_, _, _)
OptionLoop(lines, i, acc) ==
    IF i > Len(lines) THEN acc
    ELSE IF ~OptionMatches(lines[i]) THEN OptionLoop(lines, i + 1, acc)
         ELSE OptionLoop(lines, i + 1, OptionStep(acc, lines[i]))

\* a push that numbers from zero
PushQuestionZeroBased(questions, questionText, acc) ==
    Append(questions, [number        |-> Len(questions),
                       question      |-> questionText,
                       options       |-> acc.options,
                       correctAnswer |-> acc.correctAnswer])

\* lines 60-65: questions.push({number: questions.length + 1, ...})
PushQuestion(questions, questionText, acc) ==
    Append(questions, [number        |-> Len(questions) + 1,
                       question      |-> questionText,
                       options       |-> acc.options,
                       correctAnswer |-> acc.correctAnswer])

\* a question pushed whatever the number of its options
EmitQuestionUnfiltered(questions, questionText, acc) ==
    PushQuestion(questions, questionText, acc)

\* lines 58-65
EmitQuestion(questions, questionText, acc) ==
    IF Len(acc.options) = 0 THEN questions
    ELSE PushQuestion(questions, questionText, acc)

\* lines 26-65: the body of the loop over the blocks
ParseBlock(questions, block) ==
    LET lines == Lines(block)
        qIdx  == FindQuestionLine(lines)
    IN IF Len(lines) < 2 THEN questions
       ELSE IF qIdx = 0 THEN questions
       ELSE IF QuestionText(lines[qIdx]) = <<>> THEN questions
       ELSE EmitQuestion(questions, QuestionText(lines[qIdx]),
                         OptionLoop(lines, qIdx + 1,
                                    [options |-> <<>>, correctAnswer |-> Undefined]))

\* a loop that ends at the first block that yields no question
RECURSIVE ParseBlocksUntilMalformed(_, _, _)
ParseBlocksUntilMalformed(blocks, i, questions) ==
    IF i > Len(blocks) THEN questions
    ELSE IF ParseBlock(questions, blocks[i]) = questions THEN questions
    ELSE ParseBlocksUntilMalformed(blocks, i + 1, ParseBlock(questions, blocks[i]))

RECURSIVE ParseBlocks(_, _, _)
ParseBlocks(blocks, i, questions) ==
    IF i > Len(blocks) THEN questions
    ELSE ParseBlocks(blocks, i + 1, ParseBlock(questions, blocks[i]))

\* lines 15-69
parseQuiz(text) ==
    IF text = <<>> \/ trim(text) = <<>> THEN <<>>
    ELSE ParseBlocks(Blocks(text), 1, <<>>)

-----------------------------------------------------------------------------
(* The texts handed to parseQuiz                                           *)

MaxLines == 4

Join(a, b) == a \o <<"\n">> \o b

RECURSIVE JoinLines(_)
JoinLines(ls) ==
    IF ls = <<>> THEN <<>>
    ELSE IF Len(ls) = 1 THEN ls[1]
    ELSE Join(ls[1], JoinLines(Tail(ls)))

LineQ5 == <<"5", ".", " ", "Q">>

LineQ9 == <<"9", ")", "R">>

LineA3 == <<"a", ".", " ", "3">>

LineB4Correct == <<"b", ".", " ", "4", " ", "-", " ">> \o CorrectWord

LineCUpper == <<"C", ")", "x", "C", "O", "R", "R", "E", "C", "T">>

LineE7 == <<"e", ".", " ", "7">>

LineBlank == <<" ">>

LineSeparator == <<"=", "=", "=", "=", "=">>

TypedLines ==
    {LineQ5, LineQ9, LineA3, LineB4Correct, LineCUpper, LineE7, LineBlank,
     LineSeparator}

\* every text of at most MaxLines typed lines
TypedTexts ==
    {JoinLines(ls) : ls \in UNION {[1..k -> TypedLines] : k \in 0..MaxLines}}

\* "1. 2+2?" / "a. 3" / "b. 4 - correct" / "c. 5" / "====="
Scenario1Text ==
    JoinLines(<< <<"1", ".", " ", "2", "+", "2", "?">>,
                 LineA3,
                 LineB4Correct,
                 <<"c", ".", " ", "5">>,
                 LineSeparator >>)

\* blocks numbered "5." and "9." around a block that holds no question
RenumberText ==
    JoinLines(<< LineQ5, LineA3, LineSeparator, LineE7, LineE7, <<"=", "=", "=">>,
                 LineQ9, LineB4Correct >>)

\* a block with a question line and no option line, then a valid block
NoOptionText ==
    JoinLines(<< LineQ5, LineE7, <<"=", "=">>, LineSeparator, LineQ9, LineA3 >>)

\* white space only, and text without any question line
BlankText == <<" ", "\n", " ", "\t">>

GarbageText == JoinLines(<< <<"z", "z">>, LineA3, <<"1", "2">>, <<"7", ".">> >>)

MarkerLabels == {"a", "b", "D"}

Paris == <<"P", "a", "r", "i", "s">>

MarkerTexts ==
    {Paris, <<"x", "-">>, <<"x", " ", "-">>, CorrectWord, <<"n", "o", " ">> \o CorrectWord}

\* "1. Q" / "<label>. <text> - correct"
MarkedText(label, text) ==
    Join(<<"1", ".", " ", "Q">>,
         <<label, ".", " ">> \o text \o <<" ", "-", " ">> \o CorrectWord)

MarkedTexts == {MarkedText(label, text) : label \in MarkerLabels, text \in MarkerTexts}

\* "1. Q" / "a. Incorrect" / "b. 4": an option whose own text ends with the
\* letters of the marker
IncorrectText ==
    JoinLines(<< <<"1", ".", " ", "Q">>,
                 <<"a", ".", " ", "I", "n">> \o CorrectWord,
                 <<"b", ".", " ", "4">> >>)

\* "1. Q" / "a. correct" / "b. 4": an option that is the marker and no more
\* "1. Q" / "a. 3" / "B) - Correct": the same with the hyphen
MarkerOnlyTexts ==
    { JoinLines(<< <<"1", ".", " ", "Q">>, <<"a", ".", " ">> \o CorrectWord,
                   <<"b", ".", " ", "4">> >>),
      JoinLines(<< <<"1", ".", " ", "Q">>, LineA3,
                   <<"B", ")", " ", "-", " ", "C">> \o Tail(CorrectWord) >>) }

\* "1. Q" / "a. 3 - correct" / "b. 4 - correct" / "c. 5 -  correct" / "d. 6"
ThreeMarkedText ==
    JoinLines(<< <<"1", ".", " ", "Q">>,
                 LineA3 \o <<" ", "-", " ">> \o CorrectWord,
                 LineB4Correct,
                 <<"c", ".", " ", "5", " ", "-", " ", " ">> \o CorrectWord,
                 <<"d", ".", " ", "6">> >>)

MaxBlocks == 3

\* two blocks that hold a question, and blocks that hold none: one line, no
\* question line, no option line
TypedBlocks ==
    { Join(LineQ5, LineA3),
      JoinLines(<<LineQ9, LineB4Correct, LineCUpper>>),
      LineQ5,
      Join(LineA3, LineE7),
      Join(LineQ9, LineE7) }

\* blocks joined by a separator of three or more "="
RECURSIVE JoinBlocks(_, _)
JoinBlocks(bs, sep) ==
    IF bs = <<>> THEN <<>>
    ELSE IF Len(bs) = 1 THEN bs[1]
    ELSE bs[1] \o sep \o JoinBlocks(Tail(bs), sep)

\* every text of at most MaxBlocks typed blocks, with the shortest separator
BlockTexts ==
    {JoinBlocks(bs, <<"\n", "=", "=", "=", "\n">>) :
        bs \in UNION {[1..k -> TypedBlocks] : k \in 1..MaxBlocks}}

ParseInputs ==
    TypedTexts \cup MarkedTexts \cup BlockTexts \cup MarkerOnlyTexts
        \cup {Scenario1Text, RenumberText, NoOptionText, BlankText, GarbageText,
              IncorrectText, ThreeMarkedText}

-----------------------------------------------------------------------------
(* The store (src/lib/db.ts): one quiz and its submissions                 *)

\* an absent value (null, or a key that local storage does not hold) is the
\* empty sequence, a present one the sequence of that one value
Null == <<>>

Some(x) == <<x>>

AdminId == "admin"

NoValidQuestionsError == "No valid questions found. Check your formatting."

\* a createQuiz that takes every text
createQuizAcceptsAll(rawInput) == FALSE

\* createQuiz line 68: the text gives no question and createQuiz throws
createQuizThrows(rawInput) == Len(parseQuiz(rawInput)) = 0

\* the title the administrator typed
QuizTitle == <<"Q", "u", "i", "z">>

\* createQuiz, the row it inserts; max_attempts and time_limit_minutes take
\* the defaults of their columns
createQuiz(rawInput) ==
    [title              |-> trim(QuizTitle),
     questions          |-> parseQuiz(rawInput),
     raw_input          |-> rawInput,
     admin_id           |-> AdminId,
     is_active          |-> TRUE,
     max_attempts       |-> 1,
     time_limit_minutes |-> 0]

Max(a, b) == IF a >= b THEN a ELSE b

updateQuizMaxAttempts(row, maxAttempts) ==
    [row EXCEPT !.max_attempts = Max(1, maxAttempts)]

updateQuizTimeLimit(row, minutes) ==
    [row EXCEPT !.time_limit_minutes = Max(0, minutes)]

toggleQuiz(row, current) == [row EXCEPT !.is_active = ~current]

\* updateQuizTitle, the row it leaves (line 306)
updateQuizTitle(row, title) == [row EXCEPT !.title = trim(title)]

\* an update that gives every question the new correct answer
updateQuizCorrectAnswerAll(row, questionNumber, newCorrectAnswer) ==
    [row EXCEPT !.questions =
        [i \in 1..Len(row.questions) |->
            [row.questions[i] EXCEPT !.correctAnswer = newCorrectAnswer]]]

\* updateQuizCorrectAnswer, the row it leaves (lines 293-298)
updateQuizCorrectAnswer(row, questionNumber, newCorrectAnswer) ==
    [row EXCEPT !.questions =
        [i \in 1..Len(row.questions) |->
            IF row.questions[i].number = questionNumber
            THEN [row.questions[i] EXCEPT !.correctAnswer = newCorrectAnswer]
            ELSE row.questions[i]]]

\* a student view that keeps the questions as they are stored
fetchQuizForStudentUnstripped(row) ==
    [row EXCEPT !.admin_id = "", !.raw_input = <<>>]

\* fetchQuizForStudent, the quiz it returns for an active row
fetchQuizForStudent(row) ==
    [questions          |-> [i \in 1..Len(row.questions) |->
                                [row.questions[i] EXCEPT !.correctAnswer = Undefined]],
     raw_input          |-> <<>>,
     admin_id           |-> "",
     is_active          |-> row.is_active,
     max_attempts       |-> row.max_attempts,
     time_limit_minutes |-> row.time_limit_minutes]

\* an email trimmed and left in the case it was typed in
NormalizeEmailKeepCase(email) == trim(email)

\* email.toLowerCase().trim()
NormalizeEmail(email) == trim(toLowerCase(email))

\* countStudentSubmissions: the rows of this quiz with the normalized email
countStudentSubmissions(rows, email) ==
    Cardinality({i \in 1..Len(rows) : rows[i].email = NormalizeEmail(email)})

\* checkStudentSubmission: true when the student is blocked
checkStudentSubmission(row, rows, email) ==
    Cardinality({i \in 1..Len(rows) : rows[i].email = NormalizeEmail(email)})
        >= row.max_attempts

\* An answers map (Record<number, string>) is a set of [key, value] pairs
\* with distinct keys; answers[n] is undefined for a key it does not hold.
Lookup(given, n) ==
    IF \E p \in given : p.key = n
    THEN (CHOOSE p \in given : p.key = n).value
    ELSE Undefined

JsNull == "null"

\* a look-up that falls back on the label when no option carries it
OptionTextOrLabel(q, label) ==
    IF \E i \in 1..Len(q.options) : q.options[i].label = label
    THEN q.options[CHOOSE i \in 1..Len(q.options) : q.options[i].label = label].text
    ELSE <<label>>

\* q.options.find(o => o.label === label)?.text || ''
OptionText(q, label) ==
    IF \E i \in 1..Len(q.options) : q.options[i].label = label
    THEN q.options[CHOOSE i \in 1..Len(q.options) :
                      /\ q.options[i].label = label
                      /\ \A j \in 1..(i - 1) : q.options[j].label # label].text
    ELSE <<>>

\* an AnswerRecord that counts every answered question as correct
GradeQuestionLenient(q, given) ==
    LET raw    == Lookup(given, q.number)
        chosen == IF raw \in {Undefined, ""} THEN JsNull ELSE raw
    IN [questionNumber |-> q.number,
        question       |-> q.question,
        chosen         |-> IF chosen = JsNull THEN "" ELSE chosen,
        chosenText     |-> OptionText(q, chosen),
        correct        |-> IF q.correctAnswer = Undefined THEN "" ELSE q.correctAnswer,
        correctText    |-> OptionText(q, q.correctAnswer),
        isCorrect      |-> chosen # JsNull]

\* lines 191-206: the AnswerRecord of one question
GradeQuestion(q, given) ==
    LET raw    == Lookup(given, q.number)
        chosen == IF raw \in {Undefined, ""} THEN JsNull ELSE raw
    IN [questionNumber |-> q.number,
        question       |-> q.question,
        chosen         |-> IF chosen = JsNull THEN "" ELSE chosen,
        chosenText     |-> OptionText(q, chosen),
        correct        |-> IF q.correctAnswer = Undefined THEN "" ELSE q.correctAnswer,
        correctText    |-> OptionText(q, q.correctAnswer),
        isCorrect      |-> chosen # JsNull /\ chosen = q.correctAnswer]

\* grading that walks the answers given instead of the questions
GradeAnswered(quizData, given) ==
    LET answered == SelectSeq(quizData.questions,
                              LAMBDA q : Lookup(given, q.number) # Undefined)
    IN [i \in 1..Len(answered) |-> GradeQuestion(answered[i], given)]

\* lines 190-207: quiz.questions.map(q => ...)
GradeAnswers(quizData, given) ==
    [i \in 1..Len(quizData.questions) |-> GradeQuestion(quizData.questions[i], given)]

\* lines 188, 193: let score = 0; ... if (isCorrect) score++
Score(graded) == Cardinality({i \in 1..Len(graded) : graded[i].isCorrect})

\* A Number is a binary64 value: a significand of SignificandBits bits, the
\* first of them 1, times 2^exponent. The significand is held in three limbs,
\* hi of 17 bits, mid and lo of 18 bits: hi * Limb^2 + mid * Limb + lo.
SignificandBits == 53

Limb == 2^18

HighLimb == 2^17

\* the next binary64 value above x
RoundUp(x) ==
    IF x.lo + 1 < Limb THEN [x EXCEPT !.lo = @ + 1]
    ELSE IF x.mid + 1 < Limb THEN [x EXCEPT !.lo = 0, !.mid = @ + 1]
    ELSE IF x.hi + 1 < HighLimb THEN [x EXCEPT !.lo = 0, !.mid = 0, !.hi = @ + 1]
    ELSE [hi |-> HighLimb \div 2, mid |-> 0, lo |-> 0, exponent |-> x.exponent + 1]

\* round to nearest, ties to even: x is the result cut after its last bit,
\* guard the first bit cut off, sticky whether any later bit is 1
RoundToNearestEven(x, guard, sticky) ==
    IF guard /\ (sticky \/ (x.lo % 2) = 1) THEN RoundUp(x) ELSE x

\* the zeros that follow the binary point of r / t, for 0 < r < t
RECURSIVE LeadingZeros(_, _)
LeadingZeros(r, t) == IF 2 * r >= t THEN 0 ELSE 1 + LeadingZeros(2 * r, t)

\* score / total of line 210, for 0 < score <= total < 2^13: the quotient
\* by long division, limb after limb, rounded to a binary64 value
Divide(score, total) ==
    IF score = total
    THEN [hi |-> HighLimb \div 2, mid |-> 0, lo |-> 0, exponent |-> 1 - SignificandBits]
    ELSE LET z     == LeadingZeros(score, total)
             a     == score * (2^z) * HighLimb
             b     == (a % total) * Limb
             c     == (b % total) * Limb
             r     == c % total
             guard == 2 * r >= total
             rest  == IF guard THEN 2 * r - total ELSE 2 * r
         IN RoundToNearestEven([hi       |-> a \div total,
                                mid      |-> b \div total,
                                lo       |-> c \div total,
                                exponent |-> 0 - (z + SignificandBits)],
                               guard, rest # 0)

\* x * k of line 210, for 0 < k < 2^13: the product, limb after limb, cut to
\* SignificandBits bits and rounded to a binary64 value
Times(x, k) ==
    LET l    == x.lo * k
        m    == (x.mid * k) + (l \div Limb)
        h    == (x.hi * k) + (m \div Limb)
        d    == CHOOSE n \in 0..13 : (h \div (2^n)) \in (HighLimb \div 2)..(HighLimb - 1)
        p    == 2^d
        lo0  == l % Limb
        mid0 == m % Limb
        cut  == [hi       |-> h \div p,
                 mid      |-> ((h % p) * (Limb \div p)) + (mid0 \div p),
                 lo       |-> ((mid0 % p) * (Limb \div p)) + (lo0 \div p),
                 exponent |-> x.exponent + d]
    IN IF d = 0 THEN cut
       ELSE RoundToNearestEven(cut, ((lo0 \div (p \div 2)) % 2) = 1,
                               (lo0 % (p \div 2)) # 0)

\* Math.round of a binary64 value below 2^17: the integer part, plus one when
\* the first bit after the binary point is 1 (halves go up)
MathRound(x) ==
    LET n == 0 - x.exponent
    IN IF n > SignificandBits THEN 0
       ELSE IF n = 36 THEN x.hi + (x.mid \div (Limb \div 2))
       ELSE (x.hi \div (2^(n - 36))) + ((x.hi \div (2^(n - 37))) % 2)

\* line 210: total > 0 ? Math.round((score / total) * 100) : 0, in the
\* binary64 arithmetic of Number
Percentage(score, total) ==
    IF total > 0
    THEN (IF score = 0 THEN 0 ELSE MathRound(Times(Divide(score, total), 100)))
    ELSE 0

\* lines 212-226: the row submitQuiz inserts for a payload, graded against
\* the quiz it fetched
SubmissionRow(quizData, payload) ==
    LET graded == GradeAnswers(quizData, payload.answers)
    IN [email      |-> NormalizeEmail(payload.email),
        answers    |-> graded,
        score      |-> Score(graded),
        total      |-> Len(quizData.questions),
        percentage |-> Percentage(Score(graded), Len(quizData.questions))]

QuizInactiveError == "Quiz not found or inactive."

NotActiveError == "Quiz not found or not active."

-----------------------------------------------------------------------------
(* TakeQuizPage (src/pages/student/TakeQuizPage.tsx): its state            *)

Tabs == {"tab1", "tab2"}

NoError == [kind |-> "none"]

NoPending == [step |-> "none"]

EmptyStorage == [studentInfo |-> Null, answers |-> Null, timerStart |-> Null]

\* the values of the first render (the useState initializers, lines 20-37):
\* what a callback memoized with no dependencies goes on reading
FirstRender == [quiz |-> Null, info |-> <<>>, answers |-> {}, attemptCount |-> 0]

\* the state of a tab that mounts the page
Mounted(p) ==
    /\ phase = [t \in Tabs |-> p[t]]
    /\ quiz = [t \in Tabs |-> FirstRender.quiz]
    /\ info = [t \in Tabs |-> FirstRender.info]
    /\ answers = [t \in Tabs |-> FirstRender.answers]
    /\ attemptCount = [t \in Tabs |-> FirstRender.attemptCount]
    /\ infoErrors = [t \in Tabs |-> NoError]
    /\ errorMsg = [t \in Tabs |-> ""]
    /\ submitError = [t \in Tabs |-> ""]
    /\ timeLeft = [t \in Tabs |-> Null]
    /\ timerRef = [t \in Tabs |-> FALSE]
    /\ pending = [t \in Tabs |-> NoPending]
    /\ localStorage = EmptyStorage
    /\ now = 0

TabsClosed == Mounted([t \in Tabs |-> "closed"])

-----------------------------------------------------------------------------
(* Direct calls of the functions of db.ts, one at a time                   *)

MaxSubmissions == 2

MaxAttemptsSet == 2

EmailLower == <<"a", "@", "b", ".", "c">>

EmailUpper == <<"A", "@", "B", ".", "c">>

EmailPadded == <<" ", "a", "@", "b", ".", "c", " ">>

EmailOther == <<"x", "@", "b", ".", "c">>

\* the quizzes of the model: made by createQuiz, then given a limit
QuizTexts == {Scenario1Text, RenumberText}

ConfiguredQuizzes ==
    {updateQuizMaxAttempts(createQuiz(t), n) : t \in QuizTexts, n \in 1..MaxAttemptsSet}

Pair(k, v) == [key |-> k, value |-> v]

\* empty, partial, full, a label no option has, an empty choice, and a key
\* no question has
AnswerMaps ==
    { {},
      {Pair(1, "b")},
      {Pair(2, "b")},
      {Pair(1, "a"), Pair(2, "b")},
      {Pair(1, "d"), Pair(2, "")},
      {Pair(1, "b"), Pair(3, "a")},
      {Pair(7, "a")} }

\* the emails one student types: they differ in case and surrounding white
\* space only
SameStudentEmails == {EmailLower, EmailUpper, EmailPadded}

\* every answers map under one email, and one answers map under every email
Payloads ==
    {[email |-> EmailLower, answers |-> a] : a \in AnswerMaps}
        \cup {[email |-> e, answers |-> {Pair(1, "b")}] :
                  e \in SameStudentEmails \cup {EmailOther}}

NoCall == [op |-> "none", state |-> "none"]

ApiInit ==
    /\ quizRow \in ConfiguredQuizzes
    /\ submissions = <<>>
    /\ lastCall = NoCall
    /\ rawText = <<>>
    /\ parsed = <<>>
    /\ parseState = "input"
    /\ parseError = ""
    /\ created = <<>>
    /\ TabsClosed

InsertError == "insert failed"

\* a submitQuiz that records its row even when the insert reports an error
SubmitQuizCallLeaky(payload) ==
    /\ Len(submissions) < MaxSubmissions
    /\ \E inserted \in BOOLEAN :
          /\ submissions' = Append(submissions, SubmissionRow(quizRow, payload))
          /\ lastCall' = IF inserted
                         THEN [op |-> "submitQuiz", state |-> "resolved",
                               payload |-> payload,
                               result |-> SubmissionRow(quizRow, payload)]
                         ELSE [op |-> "submitQuiz", state |-> "rejected",
                               payload |-> payload, error |-> InsertError]
    /\ UNCHANGED <<quizRow, parseVars, tabVars>>

\* submitQuiz(payload) run to its end: the select of the active quiz, the
\* grading and the insert, which the store accepts or refuses (line 228)
SubmitQuizCall(payload) ==
    /\ Len(submissions) < MaxSubmissions
    /\ IF quizRow = Null \/ ~quizRow.is_active
       THEN /\ lastCall' = [op |-> "submitQuiz", state |-> "rejected",
                            payload |-> payload, error |-> QuizInactiveError]
            /\ UNCHANGED submissions
       ELSE \E inserted \in BOOLEAN :
               IF inserted
               THEN /\ submissions' = Append(submissions, SubmissionRow(quizRow, payload))
                    /\ lastCall' = [op |-> "submitQuiz", state |-> "resolved",
                                    payload |-> payload,
                                    result |-> SubmissionRow(quizRow, payload)]
               ELSE /\ lastCall' = [op |-> "submitQuiz", state |-> "rejected",
                                    payload |-> payload, error |-> InsertError]
                    /\ UNCHANGED submissions
    /\ UNCHANGED <<quizRow, parseVars, tabVars>>

\* fetchQuizForStudent(id): the select of the active quiz (lines 125-132) and
\* the quiz returned (lines 135-150)
FetchQuizForStudentCall ==
    /\ lastCall' = IF quizRow.is_active
                   THEN [op |-> "fetchQuizForStudent", state |-> "resolved",
                         result |-> fetchQuizForStudent(quizRow)]
                   ELSE [op |-> "fetchQuizForStudent", state |-> "rejected",
                         error |-> NotActiveError]
    /\ UNCHANGED <<storeVars, parseVars, tabVars>>

\* the administrator disables or enables the quiz (toggleQuiz with the
\* current value of is_active)
ToggleQuiz ==
    /\ quizRow # Null
    /\ quizRow' = toggleQuiz(quizRow, quizRow.is_active)
    /\ UNCHANGED <<submissions, lastCall, parseVars, tabVars>>

ApiNext ==
    \/ \E payload \in Payloads : SubmitQuizCall(payload)
    \/ FetchQuizForStudentCall
    \/ ToggleQuiz

SpecApi == ApiInit /\ [][ApiNext]_vars

\* Quizzes of up to MaxQuestions questions, each with the options a and b and
\* the correct answer a; the row of no question is the default of the column
MaxQuestions == 40

UniformQuiz(n) ==
    [createQuiz(Scenario1Text) EXCEPT
        !.questions = [i \in 1..n |->
                          [number        |-> i,
                           question      |-> <<"Q">>,
                           options       |-> << [label |-> "a", text |-> <<"3">>],
                                                [label |-> "b", text |-> <<"4">>] >>,
                           correctAnswer |-> "a"]]]

\* the answers map that answers the first k questions with a
FirstCorrect(k) == {Pair(i, "a") : i \in 1..k}

GradeInit ==
    /\ quizRow \in {UniformQuiz(n) : n \in 0..MaxQuestions}
    /\ submissions = <<>>
    /\ lastCall = NoCall
    /\ rawText = <<>>
    /\ parsed = <<>>
    /\ parseState = "input"
    /\ parseError = ""
    /\ created = <<>>
    /\ TabsClosed

\* submitQuiz called once on the quiz
SubmitQuizOnce(payload) ==
    /\ submissions = <<>>
    /\ SubmitQuizCall(payload)

GradeNext ==
    \E k \in 0..Len(quizRow.questions) :
        SubmitQuizOnce([email |-> EmailLower, answers |-> FirstCorrect(k)])

SpecGrade == GradeInit /\ [][GradeNext]_vars

\* The administrator: CreateQuizPage and the edit of a correct answer
MaxCreated == 1

AdminTexts == {<<>>, BlankText, GarbageText, NoOptionText, Scenario1Text, RenumberText}

AdminInit ==
    /\ quizRow = createQuiz(RenumberText)
    /\ submissions = <<>>
    /\ lastCall = NoCall
    /\ rawText = <<>>
    /\ parsed = <<>>
    /\ parseState = "input"
    /\ parseError = ""
    /\ created = <<>>
    /\ TabsClosed

\* an onChange that leaves the preview on the page
ChangeRawInputKeepPreview(text) ==
    /\ rawText # text
    /\ rawText' = text
    /\ parseError' = ""
    /\ UNCHANGED <<parsed, parseState, created, storeVars, lastCall, tabVars>>

\* CreateQuizPage line 214, onChange of the textarea
ChangeRawInput(text) ==
    /\ rawText # text
    /\ rawText' = text
    /\ parsed' = <<>>
    /\ parseError' = ""
    /\ UNCHANGED <<parseState, created, storeVars, lastCall, tabVars>>

\* CreateQuizPage lines 51-61, handlePreview
HandlePreview ==
    /\ trim(rawText) # <<>>
    /\ parsed' = parseQuiz(rawText)
    /\ parseError' = IF Len(parseQuiz(rawText)) = 0 THEN NoValidQuestionsError ELSE ""
    /\ UNCHANGED <<rawText, parseState, created, storeVars, lastCall, tabVars>>

\* how createQuiz(title, classId, classCode, rawInput) ends
CreateQuizOutcome(rawInput) ==
    IF createQuizThrows(rawInput)
    THEN [op |-> "createQuiz", state |-> "rejected", rawInput |-> rawInput,
          error |-> NoValidQuestionsError]
    ELSE [op |-> "createQuiz", state |-> "resolved", rawInput |-> rawInput,
          result |-> createQuiz(rawInput)]

\* createQuiz called with a text
CreateQuizCall(rawInput) ==
    /\ Len(created) < MaxCreated
    /\ lastCall' = CreateQuizOutcome(rawInput)
    /\ created' = IF createQuizThrows(rawInput) THEN created
                  ELSE Append(created, createQuiz(rawInput))
    /\ UNCHANGED <<rawText, parsed, parseState, parseError, storeVars, tabVars>>

\* CreateQuizPage lines 63-73, handleCreate with a title filled in: the toast
\* it shows is kept with the call
HandleCreate ==
    /\ trim(rawText) # <<>>
    /\ Len(created) < MaxCreated
    /\ LET outcome == CreateQuizOutcome(rawText) IN
       /\ lastCall' = [op |-> "handleCreate", state |-> outcome.state,
                       rawInput |-> rawText, preview |-> parsed,
                       toast |-> IF outcome.state = "resolved" THEN "Quiz created!"
                                 ELSE outcome.error]
       /\ created' = IF outcome.state = "resolved"
                     THEN Append(created, outcome.result) ELSE created
    /\ UNCHANGED <<rawText, parsed, parseState, parseError, storeVars, tabVars>>

\* an update of the correct answer that grades the recorded rows again
UpdateQuizCorrectAnswerCallRegrading(questionNumber, newCorrectAnswer) ==
    /\ quizRow # Null
    /\ quizRow' = updateQuizCorrectAnswer(quizRow, questionNumber, newCorrectAnswer)
    /\ lastCall' = [op |-> "updateQuizCorrectAnswer", state |-> "resolved",
                    questionNumber |-> questionNumber,
                    newCorrectAnswer |-> newCorrectAnswer,
                    before |-> quizRow]
    /\ submissions' =
          [r \in 1..Len(submissions) |->
              LET graded ==
                    [i \in 1..Len(submissions[r].answers) |->
                        [submissions[r].answers[i] EXCEPT
                            !.correct = IF @ # "" /\ submissions[r].answers[i].questionNumber
                                                        = questionNumber
                                        THEN newCorrectAnswer ELSE @,
                            !.isCorrect =
                                IF submissions[r].answers[i].questionNumber = questionNumber
                                THEN submissions[r].answers[i].chosen = newCorrectAnswer
                                ELSE @]]
              IN [submissions[r] EXCEPT !.answers = graded, !.score = Score(graded)]]
    /\ UNCHANGED <<parseVars, tabVars>>

\* updateQuizCorrectAnswer called by the owner of the quiz; without the row
\* of the quiz it throws (line 289)
UpdateQuizCorrectAnswerCall(questionNumber, newCorrectAnswer) ==
    /\ quizRow # Null
    /\ quizRow' = updateQuizCorrectAnswer(quizRow, questionNumber, newCorrectAnswer)
    /\ lastCall' = [op |-> "updateQuizCorrectAnswer", state |-> "resolved",
                    questionNumber |-> questionNumber,
                    newCorrectAnswer |-> newCorrectAnswer,
                    before |-> quizRow]
    /\ UNCHANGED <<submissions, parseVars, tabVars>>

AdminNext ==
    \/ \E text \in AdminTexts : ChangeRawInput(text)
    \/ HandlePreview
    \/ \E text \in AdminTexts : CreateQuizCall(text)
    \/ HandleCreate
    \/ \E n \in 1..3, label \in {"a", "b"} : UpdateQuizCorrectAnswerCall(n, label)

SpecAdmin == AdminInit /\ [][AdminNext]_vars

\* The calls that write the quiz while students submit, one at a time; the
\* quiz is absent once it or its class is deleted
SnapshotPayloads ==
    {[email |-> EmailLower, answers |-> {Pair(1, "b")}],
     [email |-> EmailOther, answers |-> {Pair(1, "a")}]}

SnapshotTitles == { <<" ", "N", "e", "w", " ">> }

ApiCall(op) == [op |-> op, state |-> "resolved"]

UpdateQuizTitleCall(title) ==
    /\ quizRow # Null
    /\ quizRow' = updateQuizTitle(quizRow, title)
    /\ lastCall' = ApiCall("updateQuizTitle")
    /\ UNCHANGED <<submissions, parseVars, tabVars>>

UpdateQuizMaxAttemptsCall(maxAttempts) ==
    /\ quizRow # Null
    /\ quizRow' = updateQuizMaxAttempts(quizRow, maxAttempts)
    /\ lastCall' = ApiCall("updateQuizMaxAttempts")
    /\ UNCHANGED <<submissions, parseVars, tabVars>>

UpdateQuizTimeLimitCall(minutes) ==
    /\ quizRow # Null
    /\ quizRow' = updateQuizTimeLimit(quizRow, minutes)
    /\ lastCall' = ApiCall("updateQuizTimeLimit")
    /\ UNCHANGED <<submissions, parseVars, tabVars>>

\* deleteQuiz: the row of the quiz goes, and with it the submissions that
\* reference it (on delete cascade)
DeleteQuizCall ==
    /\ quizRow # Null
    /\ quizRow' = Null
    /\ submissions' = <<>>
    /\ lastCall' = ApiCall("deleteQuiz")
    /\ UNCHANGED <<parseVars, tabVars>>

\* deleteClass: the quizzes and the submissions of the class go with it
DeleteClassCall ==
    /\ quizRow # Null
    /\ quizRow' = Null
    /\ submissions' = <<>>
    /\ lastCall' = ApiCall("deleteClass")
    /\ UNCHANGED <<parseVars, tabVars>>

SnapshotInit ==
    /\ quizRow = createQuiz(Scenario1Text)
    /\ submissions = <<>>
    /\ lastCall = NoCall
    /\ rawText = <<>>
    /\ parsed = <<>>
    /\ parseState = "input"
    /\ parseError = ""
    /\ created = <<>>
    /\ TabsClosed

SnapshotNext ==
    \/ \E payload \in SnapshotPayloads : SubmitQuizCall(payload)
    \/ \E label \in {"a", "b"} : UpdateQuizCorrectAnswerCall(1, label)
    \/ \E title \in SnapshotTitles : UpdateQuizTitleCall(title)
    \/ \E n \in 0..MaxAttemptsSet : UpdateQuizMaxAttemptsCall(n)
    \/ \E minutes \in {0, 1} : UpdateQuizTimeLimitCall(minutes)
    \/ ToggleQuiz
    \/ DeleteQuizCall
    \/ DeleteClassCall

SpecSnapshot == SnapshotInit /\ [][SnapshotNext]_vars

\* Two administrator pages that call updateQuizCorrectAnswer on one quiz: each
\* call is its select (lines 288-289) and, later, its update (lines 297-298)
EditLabels == {"a", "b", "c"}

EditsInit ==
    /\ quizRow \in {createQuiz(RenumberText), createQuiz(Scenario1Text)}
    /\ submissions = <<>>
    /\ lastCall = NoCall
    /\ rawText = <<>>
    /\ parsed = <<>>
    /\ parseState = "input"
    /\ parseError = ""
    /\ created = <<>>
    /\ TabsClosed

\* lines 287-291: the row of the quiz is read
UpdateQuizCorrectAnswerSelect(t, questionNumber, newCorrectAnswer) ==
    /\ pending[t] = NoPending
    /\ pending' = [pending EXCEPT ![t] =
                      [step             |-> "update",
                       questionNumber   |-> questionNumber,
                       newCorrectAnswer |-> newCorrectAnswer,
                       existing         |-> quizRow]]
    /\ UNCHANGED <<storeVars, lastCall, parseVars, phase, quiz, info, answers,
                   attemptCount, infoErrors, errorMsg, submitError, timeLeft, timerRef,
                   localStorage, now>>

\* lines 293-300: the questions computed from the row that was read are
\* written, and the call resolves
UpdateQuizCorrectAnswerUpdate(t) ==
    /\ pending[t].step = "update"
    /\ quizRow' =
          [quizRow EXCEPT !.questions =
              updateQuizCorrectAnswer(pending[t].existing, pending[t].questionNumber,
                                      pending[t].newCorrectAnswer).questions]
    /\ pending' = [pending EXCEPT ![t] =
                      [step             |-> "resolved",
                       questionNumber   |-> @.questionNumber,
                       newCorrectAnswer |-> @.newCorrectAnswer]]
    /\ UNCHANGED <<submissions, lastCall, parseVars, phase, quiz, info, answers,
                   attemptCount, infoErrors, errorMsg, submitError, timeLeft, timerRef,
                   localStorage, now>>

EditsNext ==
    \/ \E t \in Tabs, n \in 1..2, label \in EditLabels :
          UpdateQuizCorrectAnswerSelect(t, n, label)
    \/ \E t \in Tabs : UpdateQuizCorrectAnswerUpdate(t)

SpecEdits == EditsInit /\ [][EditsNext]_vars

ParseInit ==
    /\ rawText \in ParseInputs
    /\ parsed = <<>>
    /\ parseState = "input"
    /\ parseError = ""
    /\ created = <<>>
    /\ quizRow = createQuiz(Scenario1Text)
    /\ submissions = <<>>
    /\ lastCall = NoCall
    /\ TabsClosed

\* a call of parseQuiz(rawText)
ParseQuizCall ==
    /\ parseState = "input"
    /\ parsed' = parseQuiz(rawText)
    /\ parseState' = "returned"
    /\ UNCHANGED <<rawText, parseError, created, storeVars, lastCall, tabVars>>

ParseNext == ParseQuizCall

SpecParse == ParseInit /\ [][ParseNext]_vars

-----------------------------------------------------------------------------
(* TakeQuizPage: its handlers                                              *)

MaxNow == 80

TickSeconds == 20

SecondsPerMinute == 60

TypedEmails == {EmailLower, EmailUpper}

\* lines 54-85, the init effect: the fetch of the quiz and the restore of the
\* saved info and answers
InitQuiz(t) ==
    /\ phase[t] = "loading"
    /\ IF quizRow.is_active
       THEN /\ quiz' = [quiz EXCEPT ![t] = Some(fetchQuizForStudent(quizRow))]
            /\ info' = [info EXCEPT ![t] =
                            IF localStorage.studentInfo # Null
                            THEN localStorage.studentInfo[1] ELSE @]
            /\ answers' = [answers EXCEPT ![t] =
                            IF localStorage.answers # Null
                            THEN localStorage.answers[1] ELSE @]
            /\ phase' = [phase EXCEPT ![t] = "info"]
            /\ UNCHANGED errorMsg
       ELSE /\ errorMsg' = [errorMsg EXCEPT ![t] = NotActiveError]
            /\ phase' = [phase EXCEPT ![t] = "error"]
            /\ UNCHANGED <<quiz, info, answers>>
    /\ UNCHANGED <<attemptCount, infoErrors, submitError, timeLeft, timerRef, pending,
                   localStorage, now, storeVars, lastCall, parseVars>>

\* line 315, onChange of the email field
ChangeEmail(t, e) ==
    /\ phase[t] = "info"
    /\ info[t] # e
    /\ info' = [info EXCEPT ![t] = e]
    /\ infoErrors' = [infoErrors EXCEPT ![t] = NoError]
    /\ UNCHANGED <<phase, quiz, answers, attemptCount, errorMsg, submitError, timeLeft,
                   timerRef, pending, localStorage, now, storeVars, lastCall, parseVars>>

\* lines 130-131: /^[^\s@]+@[^\s@]+\.[^\s@]+$/.test(email) of a non-blank email
ValidEmail(e) ==
    /\ trim(e) # <<>>
    /\ \A i \in 1..Len(e) : e[i] \notin WhiteSpace
    /\ \E i \in 2..Len(e) :
          /\ e[i] = "@"
          /\ \A k \in 1..Len(e) : e[k] = "@" => k = i
          /\ \E j \in (i + 2)..(Len(e) - 1) : e[j] = "."

\* line 194: if (!quiz || !id) return, read in the render that made the callback
SubmitStarts(render) == render.quiz # Null

\* lines 205-212: the payload handleSubmit hands to submitQuiz
PayloadOf(render) == [email |-> render.info, answers |-> render.answers]

\* the render a handler made in the current render reads
CurrentRender(t) ==
    [quiz |-> quiz[t], info |-> info[t], answers |-> answers[t],
     attemptCount |-> attemptCount[t]]

\* lines 176-179: handleAutoSubmit is memoized with no dependencies, and so is
\* startTimer that calls it: the handleSubmit it calls is the first render's
AutoSubmitRender == FirstRender

\* a startTimer that starts every countdown afresh
RemainingRestarted(totalSeconds) == totalSeconds

\* lines 97-104: the seconds startTimer leaves
Remaining(totalSeconds) ==
    IF localStorage.timerStart # Null
    THEN Max(0, totalSeconds - (now - localStorage.timerStart[1]))
    ELSE totalSeconds

\* a handleInfoSubmit that admits a student who is exactly at the limit
HandleInfoSubmitLax(t) ==
    /\ phase[t] = "info"
    /\ ValidEmail(info[t])
    /\ quiz[t] # Null
    /\ LET count   == countStudentSubmissions(submissions, info[t])
           limit   == quiz[t][1].max_attempts
           minutes == quiz[t][1].time_limit_minutes
           timed   == minutes > 0
           left    == Remaining(minutes * SecondsPerMinute)
       IN
       /\ attemptCount' = [attemptCount EXCEPT ![t] = count]
       /\ IF count > limit
          THEN /\ infoErrors' = [infoErrors EXCEPT ![t] =
                                    [kind |-> "limit", count |-> count, limit |-> limit]]
               /\ UNCHANGED <<phase, localStorage, timeLeft, timerRef, pending>>
          ELSE /\ localStorage' =
                     [localStorage EXCEPT
                         !.studentInfo = Some(info[t]),
                         !.timerStart  = IF timed /\ @ = Null THEN Some(now) ELSE @]
               /\ timeLeft' = [timeLeft EXCEPT ![t] = IF timed THEN Some(left) ELSE @]
               /\ timerRef' = [timerRef EXCEPT ![t] = IF timed /\ left > 0 THEN TRUE ELSE @]
               /\ pending' = [pending EXCEPT ![t] =
                                 IF timed /\ left <= 0 /\ SubmitStarts(AutoSubmitRender)
                                 THEN [step |-> "select",
                                       payload |-> PayloadOf(AutoSubmitRender)]
                                 ELSE @]
               /\ phase' = [phase EXCEPT ![t] = "quiz"]
               /\ UNCHANGED infoErrors
    /\ UNCHANGED <<quiz, info, answers, errorMsg, submitError, now, storeVars, lastCall,
                   parseVars>>

\* lines 140-173, the count succeeding
HandleInfoSubmit(t) ==
    /\ phase[t] = "info"
    /\ ValidEmail(info[t])
    /\ quiz[t] # Null
    /\ LET count   == countStudentSubmissions(submissions, info[t])
           limit   == quiz[t][1].max_attempts
           minutes == quiz[t][1].time_limit_minutes
           timed   == minutes > 0
           left    == Remaining(minutes * SecondsPerMinute)
       IN
       /\ attemptCount' = [attemptCount EXCEPT ![t] = count]
       /\ IF count >= limit
          THEN /\ infoErrors' = [infoErrors EXCEPT ![t] =
                                    [kind |-> "limit", count |-> count, limit |-> limit]]
               /\ UNCHANGED <<phase, localStorage, timeLeft, timerRef, pending>>
          ELSE /\ localStorage' =
                     [localStorage EXCEPT
                         !.studentInfo = Some(info[t]),
                         !.timerStart  = IF timed /\ @ = Null THEN Some(now) ELSE @]
               /\ timeLeft' = [timeLeft EXCEPT ![t] = IF timed THEN Some(left) ELSE @]
               /\ timerRef' = [timerRef EXCEPT ![t] = IF timed /\ left > 0 THEN TRUE ELSE @]
               /\ pending' = [pending EXCEPT ![t] =
                                 IF timed /\ left <= 0 /\ SubmitStarts(AutoSubmitRender)
                                 THEN [step |-> "select",
                                       payload |-> PayloadOf(AutoSubmitRender)]
                                 ELSE @]
               /\ phase' = [phase EXCEPT ![t] = "quiz"]
               /\ UNCHANGED infoErrors
    /\ UNCHANGED <<quiz, info, answers, errorMsg, submitError, now, storeVars, lastCall,
                   parseVars>>

\* a handleInfoSubmit that keeps the student out when the count fails
HandleInfoSubmitCountFailsRefused(t) ==
    /\ phase[t] = "info"
    /\ ValidEmail(info[t])
    /\ quiz[t] # Null
    /\ infoErrors' = [infoErrors EXCEPT ![t] = [kind |-> "failed"]]
    /\ UNCHANGED <<phase, localStorage, timeLeft, timerRef, pending, attemptCount, quiz,
                   info, answers, errorMsg, submitError, now, storeVars, lastCall,
                   parseVars>>

\* lines 140-173, countStudentSubmissions throwing: the catch of lines 159-161
\* lets the handler go on
HandleInfoSubmitCountFails(t) ==
    /\ phase[t] = "info"
    /\ ValidEmail(info[t])
    /\ quiz[t] # Null
    /\ LET minutes == quiz[t][1].time_limit_minutes
           timed   == minutes > 0
           left    == Remaining(minutes * SecondsPerMinute)
       IN
       /\ localStorage' =
             [localStorage EXCEPT
                 !.studentInfo = Some(info[t]),
                 !.timerStart  = IF timed /\ @ = Null THEN Some(now) ELSE @]
       /\ timeLeft' = [timeLeft EXCEPT ![t] = IF timed THEN Some(left) ELSE @]
       /\ timerRef' = [timerRef EXCEPT ![t] = IF timed /\ left > 0 THEN TRUE ELSE @]
       /\ pending' = [pending EXCEPT ![t] =
                         IF timed /\ left <= 0 /\ SubmitStarts(AutoSubmitRender)
                         THEN [step |-> "select", payload |-> PayloadOf(AutoSubmitRender)]
                         ELSE @]
       /\ phase' = [phase EXCEPT ![t] = "quiz"]
    /\ UNCHANGED <<attemptCount, infoErrors, quiz, info, answers, errorMsg, submitError,
                   now, storeVars, lastCall, parseVars>>

\* line 507, a click on an option of a question
SelectAnswer(t, n, label) ==
    /\ phase[t] = "quiz"
    /\ \E i \in 1..Len(quiz[t][1].questions) :
          /\ quiz[t][1].questions[i].number = n
          /\ \E j \in 1..Len(quiz[t][1].questions[i].options) :
                quiz[t][1].questions[i].options[j].label = label
    /\ Lookup(answers[t], n) # label
    /\ answers' = [answers EXCEPT ![t] =
                      {p \in @ : p.key # n} \cup {Pair(n, label)}]
    /\ UNCHANGED <<phase, quiz, info, attemptCount, infoErrors, errorMsg, submitError,
                   timeLeft, timerRef, pending, localStorage, now, storeVars, lastCall,
                   parseVars>>

\* lines 47-51 and 88-92: the debounced saveProgress
SaveProgress(t) ==
    /\ phase[t] = "quiz"
    /\ localStorage.answers # Some(answers[t])
    /\ localStorage' = [localStorage EXCEPT !.answers = Some(answers[t])]
    /\ UNCHANGED <<phase, quiz, info, answers, attemptCount, infoErrors, errorMsg,
                   submitError, timeLeft, timerRef, pending, now, storeVars, lastCall,
                   parseVars>>

\* lines 88-92: a timeout set while the phase was quiz fires after handleSubmit
\* set the phase and before the render that clears it is committed; its
\* saveProgress is the one of the quiz phase
SaveProgressLate(t) ==
    /\ phase[t] = "submitting"
    /\ pending[t].step = "select"
    /\ localStorage.answers # Some(answers[t])
    /\ localStorage' = [localStorage EXCEPT !.answers = Some(answers[t])]
    /\ UNCHANGED <<phase, quiz, info, answers, attemptCount, infoErrors, errorMsg,
                   submitError, timeLeft, timerRef, pending, now, storeVars, lastCall,
                   parseVars>>

\* lines 193-212, the Submit button (line 579): the student confirms when
\* questions are unanswered
HandleSubmit(t) ==
    /\ phase[t] = "quiz"
    /\ pending[t] = NoPending
    /\ SubmitStarts(CurrentRender(t))
    /\ timerRef' = [timerRef EXCEPT ![t] = FALSE]
    /\ phase' = [phase EXCEPT ![t] = "submitting"]
    /\ submitError' = [submitError EXCEPT ![t] = ""]
    /\ pending' = [pending EXCEPT ![t] =
                      [step |-> "select", payload |-> PayloadOf(CurrentRender(t))]]
    /\ UNCHANGED <<quiz, info, answers, attemptCount, infoErrors, errorMsg, timeLeft,
                   localStorage, now, storeVars, lastCall, parseVars>>

\* a select that takes the quiz whether it is active or not
SubmitQuizSelectUngated(t) ==
    /\ pending[t].step = "select"
    /\ pending' = [pending EXCEPT ![t] =
                      [step |-> "insert", payload |-> @.payload, quizData |-> quizRow]]
    /\ UNCHANGED <<phase, submitError, quiz, info, answers, attemptCount, infoErrors,
                   errorMsg, timeLeft, timerRef, localStorage, now, storeVars, lastCall,
                   parseVars>>

\* db.ts lines 178-185, the select of the active quiz; the failure is caught
\* at lines 232-235
SubmitQuizSelect(t) ==
    /\ pending[t].step = "select"
    /\ IF quizRow.is_active
       THEN /\ pending' = [pending EXCEPT ![t] =
                              [step |-> "insert", payload |-> @.payload,
                               quizData |-> quizRow]]
            /\ UNCHANGED <<phase, submitError>>
       ELSE /\ pending' = [pending EXCEPT ![t] = NoPending]
            /\ submitError' = [submitError EXCEPT ![t] = QuizInactiveError]
            /\ phase' = [phase EXCEPT ![t] = "quiz"]
    /\ UNCHANGED <<quiz, info, answers, attemptCount, infoErrors, errorMsg, timeLeft,
                   timerRef, localStorage, now, storeVars, lastCall, parseVars>>

\* a submission that leaves the saved answers in local storage
SubmitQuizInsertKeepsAnswers(t) ==
    /\ pending[t].step = "insert"
    /\ Len(submissions) < MaxSubmissions
    /\ submissions' = Append(submissions,
                             SubmissionRow(pending[t].quizData, pending[t].payload))
    /\ pending' = [pending EXCEPT ![t] = NoPending]
    /\ localStorage' = [localStorage EXCEPT !.timerStart = Null]
    /\ phase' = [phase EXCEPT ![t] = "result"]
    /\ UNCHANGED <<quiz, info, answers, attemptCount, infoErrors, errorMsg, submitError,
                   timeLeft, timerRef, now, quizRow, lastCall, parseVars>>

\* db.ts lines 188-231, the grading and the insert; then lines 214-231, the
\* progress cleared and the result page shown
SubmitQuizInsert(t) ==
    /\ pending[t].step = "insert"
    /\ Len(submissions) < MaxSubmissions
    /\ submissions' = Append(submissions,
                             SubmissionRow(pending[t].quizData, pending[t].payload))
    /\ pending' = [pending EXCEPT ![t] = NoPending]
    /\ localStorage' = [localStorage EXCEPT !.answers = Null, !.timerStart = Null]
    /\ phase' = [phase EXCEPT ![t] = "result"]
    /\ UNCHANGED <<quiz, info, answers, attemptCount, infoErrors, errorMsg, submitError,
                   timeLeft, timerRef, now, quizRow, lastCall, parseVars>>

\* the page mounted again (a reload, or QuizResultPage lines 34-42, Retake):
\* the state is that of the first render, the interval is cleared (lines 123-125)
Remount(t) ==
    /\ phase[t] \in {"info", "quiz", "error", "result"}
    /\ pending[t] = NoPending
    /\ phase' = [phase EXCEPT ![t] = "loading"]
    /\ quiz' = [quiz EXCEPT ![t] = FirstRender.quiz]
    /\ info' = [info EXCEPT ![t] = FirstRender.info]
    /\ answers' = [answers EXCEPT ![t] = FirstRender.answers]
    /\ attemptCount' = [attemptCount EXCEPT ![t] = FirstRender.attemptCount]
    /\ infoErrors' = [infoErrors EXCEPT ![t] = NoError]
    /\ errorMsg' = [errorMsg EXCEPT ![t] = ""]
    /\ submitError' = [submitError EXCEPT ![t] = ""]
    /\ timeLeft' = [timeLeft EXCEPT ![t] = Null]
    /\ timerRef' = [timerRef EXCEPT ![t] = FALSE]
    /\ localStorage' = IF phase[t] = "result"
                       THEN [localStorage EXCEPT !.answers = Null]
                       ELSE localStorage
    /\ UNCHANGED <<pending, now, storeVars, lastCall, parseVars>>

\* lines 111-119, the interval callback run k times on a countdown that shows
\* left seconds: the countdown after it, and whether it expired
RECURSIVE Countdown(_, _)
Countdown(left, k) ==
    IF k = 0 THEN [left |-> left, expired |-> FALSE]
    ELSE IF left <= 1 THEN [left |-> 0, expired |-> TRUE]
    ELSE Countdown(left - 1, k - 1)

\* the countdown of tab t after TickSeconds seconds; prev === null expires too
AfterTick(t) ==
    IF timeLeft[t] = Null THEN [left |-> 0, expired |-> TRUE]
    ELSE Countdown(timeLeft[t][1], TickSeconds)

\* the callback that expires calls handleAutoSubmit (lines 113-114), and that
\* calls the handleSubmit of the first render
AutoSubmits(t) == timerRef[t] /\ AfterTick(t).expired /\ SubmitStarts(AutoSubmitRender)

\* TickSeconds seconds pass: every running interval (lines 110-120) fires once
\* a second
Tick ==
    /\ now + TickSeconds <= MaxNow
    /\ now' = now + TickSeconds
    /\ timeLeft' = [t \in Tabs |->
                      IF timerRef[t] THEN Some(AfterTick(t).left) ELSE timeLeft[t]]
    /\ timerRef' = [t \in Tabs |-> timerRef[t] /\ ~AfterTick(t).expired]
    /\ phase' = [t \in Tabs |-> IF AutoSubmits(t) THEN "submitting" ELSE phase[t]]
    /\ submitError' = [t \in Tabs |-> IF AutoSubmits(t) THEN "" ELSE submitError[t]]
    /\ pending' = [t \in Tabs |->
                    IF AutoSubmits(t)
                    THEN [step |-> "select", payload |-> PayloadOf(AutoSubmitRender)]
                    ELSE pending[t]]
    /\ UNCHANGED <<quiz, info, answers, attemptCount, infoErrors, errorMsg,
                   localStorage, storeVars, lastCall, parseVars>>

TabStep(t) ==
    \/ InitQuiz(t)
    \/ \E e \in TypedEmails : ChangeEmail(t, e)
    \/ HandleInfoSubmit(t)
    \/ \E n \in 1..2, label \in {"a", "b"} : SelectAnswer(t, n, label)
    \/ HandleSubmit(t)
    \/ SubmitQuizSelect(t)
    \/ SubmitQuizInsert(t)
    \/ Remount(t)

\* two tabs of one browser on the quiz of scenario 1; the debounced save of
\* the answers is left to the specifications of a single tab
Init ==
    /\ quizRow \in {updateQuizMaxAttempts(createQuiz(Scenario1Text), n) :
                        n \in 1..MaxAttemptsSet}
    /\ submissions = <<>>
    /\ lastCall = NoCall
    /\ rawText = <<>>
    /\ parsed = <<>>
    /\ parseState = "input"
    /\ parseError = ""
    /\ created = <<>>
    /\ Mounted([t \in Tabs |-> "loading"])

Next ==
    \/ \E t \in Tabs : TabStep(t)
    \/ ToggleQuiz

Spec == Init /\ [][Next]_vars

\* one tab, a quiz with a time limit of one minute, and the clock
TimerInit ==
    /\ quizRow \in {updateQuizTimeLimit(updateQuizMaxAttempts(createQuiz(Scenario1Text), n), 1) :
                        n \in 1..MaxAttemptsSet}
    /\ submissions = <<>>
    /\ lastCall = NoCall
    /\ rawText = <<>>
    /\ parsed = <<>>
    /\ parseState = "input"
    /\ parseError = ""
    /\ created = <<>>
    /\ Mounted([t \in Tabs |-> IF t = "tab1" THEN "loading" ELSE "closed"])

TimerNext ==
    \/ \E t \in Tabs : TabStep(t)
    \/ \E t \in Tabs : SaveProgress(t)
    \/ \E t \in Tabs : SaveProgressLate(t)
    \/ Tick

SpecTimer == TimerInit /\ [][TimerNext]_vars

\* the same tab when countStudentSubmissions may fail
DegradedNext ==
    \/ TimerNext
    \/ \E t \in Tabs : HandleInfoSubmitCountFails(t)

SpecDegraded == TimerInit /\ [][DegradedNext]_vars

-----------------------------------------------------------------------------
(* Properties of parseQuiz, checked under SpecParse                        *)

Returned == parseState = "returned"

\* C5: the i-th question parseQuiz returns carries the number i, whatever
\* numerals the text typed and however many blocks were skipped before it
C5_Renumbering ==
    Returned => \A i \in 1..Len(parsed) : parsed[i].number = i

\* the blocks typed "5." and "9.", around a skipped block, came back as 1 and 2
C5_Witness ==
    /\ Returned
    /\ rawText = RenumberText
    /\ Len(parsed) = 2
    /\ parsed[1].question = <<"Q">>
    /\ parsed[2].question = <<"R">>

\* the block has a question line and, after its first question line, a line
\* of the option pattern
BlockHasOption(block) ==
    LET lines == Lines(block) IN
    /\ Len(lines) >= 2
    /\ \E i \in 1..Len(lines) :
          /\ IsQuestionLine(lines[i])
          /\ \A j \in 1..(i - 1) : ~IsQuestionLine(lines[j])
          /\ \E k \in (i + 1)..Len(lines) : OptionMatches(lines[k])

\* C6: every question parseQuiz returns has at least one option, and a block
\* with no option line after its question line returns no question: there are
\* as many questions as blocks with such a line
C6_OptionCountFilter ==
    Returned =>
        /\ \A i \in 1..Len(parsed) : Len(parsed[i].options) >= 1
        /\ Len(parsed) =
              Cardinality({k \in 1..Len(Blocks(rawText)) :
                              BlockHasOption(Blocks(rawText)[k])})

\* a block with a question line and no option was dropped, the next one kept
C6_Witness ==
    /\ Returned
    /\ rawText = NoOptionText
    /\ Len(Blocks(rawText)) = 2
    /\ Len(parsed) = 1
    /\ parsed[1].question = <<"R">>

\* the text is a digit run, a delimiter, then white space and at least one
\* more character, read from the start of the line
StartsAsQuestion(l) ==
    \E n \in 1..Len(l) :
        /\ \A j \in 1..n : l[j] \in Digits
        /\ Len(l) >= n + 2
        /\ l[n + 1] \in {".", ")"}

\* no line of the text, cut at its separators, reads as a question line
NoQuestionLine(text) ==
    \A k \in 1..Len(Blocks(text)) :
        \A j \in 1..Len(Lines(Blocks(text)[k])) :
            ~StartsAsQuestion(Lines(Blocks(text)[k])[j])

\* C7: for the empty text, a text of white space only and a text with no
\* question line, with or without separators, parseQuiz returns the empty list
C7_TotalOnGarbage ==
    (Returned /\ (rawText = <<>> \/ trim(rawText) = <<>> \/ NoQuestionLine(rawText)))
        => parsed = <<>>

\* each of the three kinds of input was parsed
C7_Witness ==
    /\ Returned
    /\ rawText = GarbageText
    /\ NoQuestionLine(rawText)
    /\ parsed = <<>>

\* C8: for the option line "<label>. <text> - correct" the option stored has
\* the lower-case label and the text <text> without marker, hyphen and
\* surrounding white space, and correctAnswer is that label
C8_MarkerStripped ==
    \A label \in MarkerLabels, text \in MarkerTexts :
        (Returned /\ rawText = MarkedText(label, text)) =>
            parsed = << [number        |-> 1,
                         question      |-> <<"Q">>,
                         options       |-> << [label |-> LowerChar(label),
                                               text  |-> trim(text)] >>,
                         correctAnswer |-> LowerChar(label)] >>

\* "D. Paris - correct" was parsed
C8_Witness ==
    /\ Returned
    /\ rawText = MarkedText("D", Paris)
    /\ parsed[1].options = << [label |-> "d", text |-> Paris] >>
    /\ parsed[1].correctAnswer = "d"

Scenario1Question == <<"2", "+", "2", "?">>

\* C9 as the specification words it: the text of scenario 1 returns one
\* question with the two options a and b
C9_ScenarioTwoOptions ==
    (Returned /\ rawText = Scenario1Text) =>
        parsed = << [number        |-> 1,
                     question      |-> Scenario1Question,
                     options       |-> << [label |-> "a", text |-> <<"3">>],
                                          [label |-> "b", text |-> <<"4">>] >>,
                     correctAnswer |-> "b"] >>

\* C9: the text of scenario 1 returns exactly one question, numbered 1, with
\* the question "2+2?", the three options a "3", b "4" and c "5" in that
\* order, and correctAnswer b
C9_ScenarioThreeOptions ==
    (Returned /\ rawText = Scenario1Text) =>
        parsed = << [number        |-> 1,
                     question      |-> Scenario1Question,
                     options       |-> << [label |-> "a", text |-> <<"3">>],
                                          [label |-> "b", text |-> <<"4">>],
                                          [label |-> "c", text |-> <<"5">>] >>,
                     correctAnswer |-> "b"] >>

\* the text of scenario 1 was parsed into one question
C9_Witness ==
    /\ Returned
    /\ rawText = Scenario1Text
    /\ Len(parsed) = 1
    /\ Len(parsed[1].options) = 3

\* the blocks of the text that hold a question line and, after it, an option
\* line, in their order
ValidBlocks(text) == SelectSeq(Blocks(text), BlockHasOption)

\* the index of the first line of the block that reads as a question line
FirstQuestionAt(block) ==
    CHOOSE i \in 1..Len(Lines(block)) :
        /\ IsQuestionLine(Lines(block)[i])
        /\ \A j \in 1..(i - 1) : ~IsQuestionLine(Lines(block)[j])

\* the option lines of a block: the lines after its question line that read
\* as a letter a-d in either case, "." or ")", and some text
OptionLines(block) ==
    SelectSeq(SubSeq(Lines(block), FirstQuestionAt(block) + 1, Len(Lines(block))),
              OptionMatches)

\* the text of an option line, trimmed
TrimmedOptionText(l) == trim(SubSeq(l, 3, Len(l)))

\* the text ends with the letters of "correct" in either case (the hyphen
\* and the white space before them are optional)
EndsWithCorrect(text) ==
    /\ Len(text) >= Len(CorrectWord)
    /\ toLowerCase(SubSeq(text, Len(text) - Len(CorrectWord) + 1, Len(text))) = CorrectWord

\* the text without its final "correct", the white space before it, one
\* hyphen before that and the white space around what is left
WithoutMarker(text) ==
    LET a == trimEnd(SubSeq(text, 1, Len(text) - Len(CorrectWord)))
        b == IF a # <<>> /\ a[Len(a)] = "-" THEN SubSeq(a, 1, Len(a) - 1) ELSE a
    IN trim(b)

\* the option lines of the block that end with the marker
MarkedAt(block) ==
    {j \in 1..Len(OptionLines(block)) :
        EndsWithCorrect(TrimmedOptionText(OptionLines(block)[j]))}

Last(S) == CHOOSE j \in S : \A k \in S : k <= j

\* C22: when several option lines of a block end with the marker, correctAnswer
\* is the label of the last of them, every marked option is stored without its
\* marker, and the options are the option lines in their order
C22_LastMarkerWins ==
    Returned =>
        /\ Len(parsed) = Len(ValidBlocks(rawText))
        /\ \A i \in 1..Len(parsed) :
              LET block == ValidBlocks(rawText)[i]
                  ols   == OptionLines(block)
              IN /\ Len(parsed[i].options) = Len(ols)
                 /\ \A j \in 1..Len(ols) :
                       parsed[i].options[j].label = LowerChar(ols[j][1])
                 /\ \A j \in MarkedAt(block) :
                       parsed[i].options[j].text = WithoutMarker(TrimmedOptionText(ols[j]))
                 /\ MarkedAt(block) # {}
                       => parsed[i].correctAnswer = LowerChar(ols[Last(MarkedAt(block))][1])

\* three marked options a, b, c and an unmarked d: c won, the four are there
C22_Witness ==
    /\ Returned
    /\ rawText = ThreeMarkedText
    /\ Cardinality(MarkedAt(ValidBlocks(rawText)[1])) = 3
    /\ parsed[1].correctAnswer = "c"
    /\ parsed[1].options = << [label |-> "a", text |-> <<"3">>],
                              [label |-> "b", text |-> <<"4">>],
                              [label |-> "c", text |-> <<"5">>],
                              [label |-> "d", text |-> <<"6">>] >>

\* the questions numbered 1..n in their order
Renumbered(qs) == [i \in 1..Len(qs) |-> [qs[i] EXCEPT !.number = i]]

\* what each of the first k blocks yields when parsed alone, one after another
RECURSIVE EachAlone(_, _)
EachAlone(blocks, k) ==
    IF k = 0 THEN <<>>
    ELSE EachAlone(blocks, k - 1) \o parseQuiz(blocks[k])

\* C23: the result is the questions each block yields when parsed alone, in
\* the order of the blocks and numbered 1..n; a block that yields none (less
\* than two lines, no question line, no option) changes nothing: the text of
\* the other blocks alone gives the same result
C23_BlockIndependence ==
    Returned =>
        /\ parsed = Renumbered(EachAlone(Blocks(rawText), Len(Blocks(rawText))))
        /\ parsed = parseQuiz(JoinBlocks(ValidBlocks(rawText), LineSeparator))

\* a block without question line between two blocks that hold a question
C23_Witness ==
    /\ Returned
    /\ rawText = JoinBlocks(<< Join(LineQ5, LineA3), Join(LineA3, LineE7),
                               JoinLines(<<LineQ9, LineB4Correct, LineCUpper>>) >>,
                            <<"\n", "=", "=", "=", "\n">>)
    /\ ValidBlocks(rawText) = << Join(LineQ5, LineA3),
                                 JoinLines(<<LineQ9, LineB4Correct, LineCUpper>>) >>
    /\ Len(Blocks(rawText)) = 3
    /\ Len(parsed) = 2
    /\ parsed[2].number = 2
    /\ parsed[2].question = <<"R">>
    /\ parsed[2].correctAnswer = "c"

\* C30: every option of every question returned has a label among a, b, c, d
\* in lower case and a text that is not empty, marked options included
C30_OptionsWellFormed ==
    Returned =>
        \A i \in 1..Len(parsed) :
            \A j \in 1..Len(parsed[i].options) :
                /\ parsed[i].options[j].label \in {"a", "b", "c", "d"}
                /\ parsed[i].options[j].text # <<>>

-----------------------------------------------------------------------------
(* Properties of the calls of db.ts, checked under SpecApi                 *)

Resolved(op) == lastCall.op = op /\ lastCall.state = "resolved"

\* C1: a submitQuiz call for an email that already has max_attempts or more
\* recorded submissions is refused and inserts no row: a call that resolved
\* found fewer than max_attempts rows of its email
C1_RefusedAtLimit ==
    Resolved("submitQuiz") =>
        countStudentSubmissions(submissions, lastCall.payload.email) - 1
            < quizRow.max_attempts

\* the active quiz the student was given, with other correct answers and
\* another raw input stored
WithOtherSecrets(row) ==
    [row EXCEPT !.questions = [i \in 1..Len(row.questions) |->
                                  [row.questions[i] EXCEPT !.correctAnswer = "a"]],
                !.raw_input = <<"x">>,
                !.is_active = TRUE]

\* C3: the quiz fetchQuizForStudent returns has no correctAnswer on any
\* question, a blank raw_input and a blank admin_id, and is the quiz returned
\* for a stored quiz that differs only in its correct answers and raw input
C3_NoAnswersForStudent ==
    Resolved("fetchQuizForStudent") =>
        /\ Len(lastCall.result.questions) = Len(quizRow.questions)
        /\ \A i \in 1..Len(lastCall.result.questions) :
              lastCall.result.questions[i].correctAnswer = Undefined
        /\ lastCall.result.raw_input = <<>>
        /\ lastCall.result.admin_id = ""
        /\ lastCall.result = fetchQuizForStudent(WithOtherSecrets(quizRow))

\* a quiz that stores a correct answer and its raw input was fetched
C3_Witness ==
    /\ Resolved("fetchQuizForStudent")
    /\ \E i \in 1..Len(quizRow.questions) : quizRow.questions[i].correctAnswer = "b"
    /\ quizRow.raw_input # <<>>
    /\ quizRow.admin_id # ""

\* C10: the answers of every row submitQuiz records hold one AnswerRecord per
\* question of the stored quiz, in the order of the quiz, each with the
\* number of its question, whatever answers map was sent
C10_GradingComplete ==
    \A r \in 1..Len(submissions) :
        /\ Len(submissions[r].answers) = Len(quizRow.questions)
        /\ \A i \in 1..Len(quizRow.questions) :
              submissions[r].answers[i].questionNumber = quizRow.questions[i].number

\* a quiz of two questions graded an answers map whose only key matches no
\* question
C10_Witness ==
    /\ Resolved("submitQuiz")
    /\ Len(quizRow.questions) = 2
    /\ lastCall.payload.answers = {Pair(7, "a")}
    /\ Len(lastCall.result.answers) = 2

\* the label sent for question q, or none
Answered(given, q) == Lookup(given, q.number) \notin {Undefined, ""}

\* C12: the record of a question has isCorrect exactly when a non-empty label
\* was sent for its number and equals its correctAnswer; an unanswered
\* question has isCorrect false and chosen the empty string, and a question
\* without correctAnswer has isCorrect false
C12_IsCorrectExactly ==
    Resolved("submitQuiz") =>
        \A i \in 1..Len(quizRow.questions) :
            LET q     == quizRow.questions[i]
                rec   == lastCall.result.answers[i]
                given == lastCall.payload.answers
            IN /\ rec.isCorrect <=>
                      (Answered(given, q) /\ Lookup(given, q.number) = q.correctAnswer)
               /\ ~Answered(given, q) =>
                      (~rec.isCorrect /\ rec.chosen = "" /\ rec.chosenText = <<>>)
               /\ q.correctAnswer = Undefined => ~rec.isCorrect

\* a question without correctAnswer was answered, another was answered
\* correctly
C12_Witness ==
    /\ Resolved("submitQuiz")
    /\ lastCall.payload.answers = {Pair(1, "a"), Pair(2, "b")}
    /\ Len(quizRow.questions) = 2
    /\ quizRow.questions[1].correctAnswer = Undefined
    /\ ~lastCall.result.answers[1].isCorrect
    /\ lastCall.result.answers[2].isCorrect

\* the texts of the options of q that carry the label
TextsLabelled(q, label) ==
    {q.options[i].text : i \in {j \in 1..Len(q.options) : q.options[j].label = label}}

\* text is the text of the option of q with that label, or empty when there
\* is none
ResolvesTo(text, q, label) ==
    IF TextsLabelled(q, label) = {} THEN text = <<>> ELSE text \in TextsLabelled(q, label)

\* C24: in the record of a question chosenText is the text of the option with
\* the chosen label, empty when nothing was chosen or no option has the label;
\* correct is correctAnswer, empty when absent, and correctText the text of the
\* option with that label, empty when there is none
C24_TextResolution ==
    Resolved("submitQuiz") =>
        \A i \in 1..Len(quizRow.questions) :
            LET q     == quizRow.questions[i]
                rec   == lastCall.result.answers[i]
                given == lastCall.payload.answers
            IN /\ rec.chosen = (IF Answered(given, q) THEN Lookup(given, q.number) ELSE "")
               /\ IF Answered(given, q)
                  THEN ResolvesTo(rec.chosenText, q, Lookup(given, q.number))
                  ELSE rec.chosenText = <<>>
               /\ rec.correct = (IF q.correctAnswer = Undefined THEN "" ELSE q.correctAnswer)
               /\ IF q.correctAnswer = Undefined
                  THEN rec.correctText = <<>>
                  ELSE ResolvesTo(rec.correctText, q, q.correctAnswer)

\* scenario 3: "a" answered where "b" is correct
C24_Witness ==
    /\ Resolved("submitQuiz")
    /\ Lookup(lastCall.payload.answers, 1) = "a"
    /\ LET rec == lastCall.result.answers[1]
       IN /\ rec.chosen = "a"
          /\ rec.chosenText = <<"3">>
          /\ rec.correct = "b"
          /\ rec.correctText = <<"4">>
          /\ ~rec.isCorrect

\* C13: emails that differ only in case or surrounding white space are one
\* student: they have the same count and the same answer of
\* checkStudentSubmission, and a submission recorded under one of them is
\* counted as a prior attempt when any other of them is checked
C13_EmailIdentity ==
    /\ \A e1, e2 \in SameStudentEmails :
          /\ countStudentSubmissions(submissions, e1)
                = countStudentSubmissions(submissions, e2)
          /\ checkStudentSubmission(quizRow, submissions, e1)
                = checkStudentSubmission(quizRow, submissions, e2)
    /\ countStudentSubmissions(submissions, EmailLower)
          + countStudentSubmissions(submissions, EmailOther) = Len(submissions)
    /\ (Resolved("submitQuiz") /\ lastCall.payload.email \in SameStudentEmails) =>
          \A e \in SameStudentEmails :
              /\ countStudentSubmissions(submissions, e) >= 1
              /\ quizRow.max_attempts = 1 =>
                    checkStudentSubmission(quizRow, submissions, e)

\* a submission sent under the upper-case email blocks the padded one, next
\* to a submission of another student
C13_Witness ==
    /\ Resolved("submitQuiz")
    /\ lastCall.payload.email = EmailUpper
    /\ quizRow.max_attempts = 1
    /\ countStudentSubmissions(submissions, EmailOther) = 1
    /\ countStudentSubmissions(submissions, EmailPadded) = 1
    /\ checkStudentSubmission(quizRow, submissions, EmailPadded)

\* a row whose answers hold one record per question of the quiz, with the
\* score, total and percentage of those records
CompleteRow(row) ==
    /\ Len(row.answers) = Len(quizRow.questions)
    /\ \A i \in 1..Len(row.answers) :
          row.answers[i].questionNumber = quizRow.questions[i].number
    /\ row.total = Len(row.answers)
    /\ row.score = Cardinality({i \in 1..Len(row.answers) : row.answers[i].isCorrect})
    /\ row.percentage \in 0..100
    /\ row.score = 0 => row.percentage = 0
    /\ (row.total > 0 /\ row.score = row.total) => row.percentage = 100

\* C15: a submitQuiz call either resolves and inserts exactly one complete
\* row, or fails with an error and leaves the stored submissions as they
\* were; every stored row is complete
C15_NoPartialSuccess ==
    /\ [](\A r \in 1..Len(submissions) : CompleteRow(submissions[r]))
    /\ [][((submissions' # submissions \/ lastCall' # lastCall)
              /\ lastCall'.op = "submitQuiz")
            => \/ /\ lastCall'.state = "resolved"
                  /\ submissions' = Append(submissions, lastCall'.result)
                  /\ CompleteRow(lastCall'.result)
               \/ /\ lastCall'.state = "rejected"
                  /\ submissions' = submissions]_vars

\* after one submission was recorded, an insert failed and a call on the
\* disabled quiz was refused
C15_Witness ==
    /\ lastCall.op = "submitQuiz"
    /\ lastCall.state = "rejected"
    /\ lastCall.error = InsertError
    /\ Len(submissions) = 1
    /\ Len(quizRow.questions) = 2

-----------------------------------------------------------------------------
(* Properties of the administrator's calls, checked under SpecAdmin        *)

\* C16: updateQuizCorrectAnswer(quizId, n, label) changes the correctAnswer
\* of the question numbered n and nothing else: its number, text and options,
\* every other question, the order and count of the questions and the other
\* fields of the quiz are as before
C16_OnlyCorrectAnswerChanges ==
    lastCall.op = "updateQuizCorrectAnswer" =>
        LET before == lastCall.before IN
        /\ Len(quizRow.questions) = Len(before.questions)
        /\ \A i \in 1..Len(before.questions) :
              LET old == before.questions[i]
                  new == quizRow.questions[i]
              IN /\ new.number = old.number
                 /\ new.question = old.question
                 /\ new.options = old.options
                 /\ new.correctAnswer =
                       IF old.number = lastCall.questionNumber
                       THEN lastCall.newCorrectAnswer ELSE old.correctAnswer
        /\ quizRow.raw_input = before.raw_input
        /\ quizRow.admin_id = before.admin_id
        /\ quizRow.is_active = before.is_active
        /\ quizRow.max_attempts = before.max_attempts
        /\ quizRow.time_limit_minutes = before.time_limit_minutes

\* the answer of question 2 went from b to a next to a question that has none
C16_Witness ==
    /\ lastCall.op = "updateQuizCorrectAnswer"
    /\ lastCall.questionNumber = 2
    /\ lastCall.newCorrectAnswer = "a"
    /\ lastCall.before.questions[2].correctAnswer = "b"
    /\ quizRow.questions[2].correctAnswer = "a"
    /\ quizRow.questions[1].correctAnswer = Undefined

CreateCalls == {"createQuiz", "handleCreate"}

\* C17: createQuiz on a text that parseQuiz turns into no question fails with
\* the one error 'No valid questions found. Check your formatting.' and
\* inserts no row, and handlePreview reports the same error; every row
\* createQuiz inserted stores at least one question
C17_NoEmptyQuiz ==
    /\ [](/\ \A r \in 1..Len(created) : Len(created[r].questions) >= 1
          /\ (lastCall.op = "createQuiz" /\ Len(parseQuiz(lastCall.rawInput)) = 0)
                => (lastCall.state = "rejected" /\ lastCall.error = NoValidQuestionsError)
          /\ (lastCall.op = "handleCreate" /\ Len(parseQuiz(lastCall.rawInput)) = 0)
                => (lastCall.state = "rejected" /\ lastCall.toast = NoValidQuestionsError)
          /\ parseError # "" => (parseError = NoValidQuestionsError /\ parsed = <<>>))
    /\ [][(lastCall' # lastCall /\ lastCall'.op \in CreateCalls
              /\ Len(parseQuiz(lastCall'.rawInput)) = 0)
            => created' = created]_vars

\* createQuiz refused a text without a question line and inserted nothing
C17_Witness ==
    /\ lastCall.op = "createQuiz"
    /\ lastCall.rawInput = GarbageText
    /\ lastCall.state = "rejected"
    /\ created = <<>>

\* C18: a preview that is not empty is parseQuiz of the text in the
\* textarea, the questions of a created row are parseQuiz of its raw input,
\* and a quiz created from the page while a preview is shown stores the
\* questions of that preview
C18_PreviewMatchesCreation ==
    /\ parsed # <<>> => parsed = parseQuiz(rawText)
    /\ \A r \in 1..Len(created) :
          created[r].questions = parseQuiz(created[r].raw_input)
    /\ (lastCall.op = "handleCreate" /\ lastCall.state = "resolved"
           /\ lastCall.preview # <<>>)
          => /\ created # <<>>
             /\ created[Len(created)].raw_input = lastCall.rawInput
             /\ created[Len(created)].questions = lastCall.preview

\* a quiz was created from the page after its text was previewed
C18_Witness ==
    /\ lastCall.op = "handleCreate"
    /\ lastCall.state = "resolved"
    /\ lastCall.rawInput = RenumberText
    /\ Len(lastCall.preview) = 2
    /\ Len(created) = 1

\* the correctAnswer of the question is absent or the label of one of its options
OwnLabel(q) ==
    \/ q.correctAnswer = Undefined
    \/ \E k \in 1..Len(q.options) : q.options[k].label = q.correctAnswer

-----------------------------------------------------------------------------
(* Properties of two sessions of one student, checked under Spec           *)

\* C2: under every interleaving of two sessions of one student, the rows
\* recorded for the email never exceed max_attempts
C2_NeverOverLimit ==
    \A e \in TypedEmails :
        countStudentSubmissions(submissions, e) <= quizRow.max_attempts

-----------------------------------------------------------------------------
(* Properties of the countdown, checked under SpecTimer                    *)

\* C4: when the countdown reaches zero in the quiz phase, submitQuiz is called
\* in that step with the answers selected so far and the info entered
C4_AutoSubmitAtExpiry ==
    [][\A t \in Tabs :
          (phase[t] = "quiz" /\ timerRef[t] /\ timeLeft'[t] = Some(0))
              => /\ phase'[t] = "submitting"
                 /\ pending'[t] = [step    |-> "select",
                                   payload |-> [email   |-> info[t],
                                                answers |-> answers[t]]]]_vars

\* C19: a submission of the info form whose count succeeds admits the student
\* to the quiz phase exactly when the count is below max_attempts; otherwise
\* the phase stays info, no timer is started and the error carries the count
\* and the limit
C19_AdmissionCheck ==
    [][\A t \in Tabs :
          LET count == countStudentSubmissions(submissions, info[t])
              limit == quiz[t][1].max_attempts
          IN
          /\ (phase[t] = "info" /\ phase'[t] = "quiz")
                => /\ count < limit
                   /\ attemptCount'[t] = count
                   /\ localStorage'.studentInfo = Some(info[t])
          /\ (phase[t] = "info" /\ phase'[t] \in {"info", "quiz"}
                                /\ attemptCount'[t] # attemptCount[t])
                => /\ attemptCount'[t] = count
                   /\ phase'[t] = "quiz" <=> count < limit
          /\ (phase[t] = "info" /\ infoErrors'[t] # infoErrors[t]
                                /\ infoErrors'[t] # NoError)
                => /\ count >= limit
                   /\ infoErrors'[t] = [kind |-> "limit", count |-> count, limit |-> limit]
                   /\ phase'[t] = "info"
                   /\ timerRef'[t] = timerRef[t]
                   /\ timeLeft'[t] = timeLeft[t]
                   /\ localStorage' = localStorage]_vars

\* with a limit of 2: two submissions recorded, and the third entry refused
C19_Witness ==
    /\ quizRow.max_attempts = 2
    /\ Len(submissions) = 2
    /\ phase["tab1"] = "info"
    /\ attemptCount["tab1"] = 2
    /\ infoErrors["tab1"] = [kind |-> "limit", count |-> 2, limit |-> 2]
    /\ ~timerRef["tab1"]

\* the seconds the quiz of tab t allows
TotalSeconds(t) == quiz[t][1].time_limit_minutes * SecondsPerMinute

\* the seconds passed since the stored start
Elapsed == now - localStorage.timerStart[1]

C27_ProgressCleanup ==
    /\ [](\A t \in Tabs :
             phase[t] = "result" =>
                 /\ localStorage.answers = Null
                 /\ localStorage.timerStart = Null
                 /\ localStorage.studentInfo # Null)
    /\ [][\A t \in Tabs :
             /\ (phase[t] = "submitting" /\ phase'[t] = "result")
                   => localStorage'.studentInfo = localStorage.studentInfo
             /\ (phase[t] = "result" /\ phase'[t] # "result")
                   => (localStorage'.answers = Null /\ answers'[t] = {})
             /\ (phase[t] = "loading" /\ localStorage.answers = Null)
                   => (localStorage'.answers = Null /\ answers'[t] = {})]_vars

\* an answer was chosen and saved, the submission succeeded: the result page
\* is shown, and the saved answers are gone
C27_Witness ==
    /\ phase["tab1"] = "result"
    /\ answers["tab1"] # {}
    /\ Len(submissions) >= 1
    /\ submissions[Len(submissions)].answers[1].chosen # ""
    /\ localStorage.answers = Null
    /\ localStorage.studentInfo = Some(info["tab1"])

-----------------------------------------------------------------------------
(* Properties of overlapping answer edits, checked under SpecEdits         *)

\* the stored question with that number carries that correctAnswer
Carries(questionNumber, label) ==
    \A i \in 1..Len(quizRow.questions) :
        quizRow.questions[i].number = questionNumber
            => quizRow.questions[i].correctAnswer = label

\* C29: when two updateQuizCorrectAnswer calls on the quiz for different
\* question numbers have both resolved, whatever the order of their selects
\* and updates, the stored questions carry both new correct answers
C29_NoLostUpdate ==
    (/\ pending["tab1"].step = "resolved"
     /\ pending["tab2"].step = "resolved"
     /\ pending["tab1"].questionNumber # pending["tab2"].questionNumber)
        => /\ Carries(pending["tab1"].questionNumber, pending["tab1"].newCorrectAnswer)
           /\ Carries(pending["tab2"].questionNumber, pending["tab2"].newCorrectAnswer)

-----------------------------------------------------------------------------
(* Properties of the recorded submissions, checked under SpecSnapshot      *)

\* C25: a recorded submission stays as it was recorded: while the quiz exists,
\* no call of updateQuizCorrectAnswer, updateQuizTitle, updateQuizMaxAttempts,
\* updateQuizTimeLimit, toggleQuiz or submitQuiz changes or removes a row;
\* rows go only when the quiz or its class is deleted
C25_SnapshotImmutable ==
    [][/\ quizRow' # Null =>
             /\ Len(submissions') >= Len(submissions)
             /\ \A r \in 1..Len(submissions) : submissions'[r] = submissions[r]
       /\ Len(submissions') < Len(submissions) =>
             (quizRow' = Null /\ lastCall'.op \in {"deleteQuiz", "deleteClass"})]_vars

\* a row graded under "b" is still there after the correct answer became "a",
\* the title changed and the quiz was disabled
C25_Witness ==
    /\ quizRow # Null
    /\ ~quizRow.is_active
    /\ quizRow.title # QuizTitle
    /\ quizRow.questions[1].correctAnswer = "a"
    /\ Len(submissions) = 2
    /\ submissions[1].answers[1].correct = "b"
    /\ submissions[1].answers[1].isCorrect
    /\ submissions[1].score = 1

-----------------------------------------------------------------------------
(* Properties of the info form when the count fails, checked under         *)
(* SpecDegraded                                                            *)

\* C20: when countStudentSubmissions throws during handleInfoSubmit the student
\* enters the quiz phase with attemptCount as it was, whatever the number of
\* submissions recorded; and only such a failure admits a student at the limit
C20_GracefulDegradation ==
    [][\A t \in Tabs :
          /\ HandleInfoSubmitCountFails(t)
                => /\ phase'[t] = "quiz"
                   /\ attemptCount'[t] = attemptCount[t]
                   /\ infoErrors'[t] = infoErrors[t]
          /\ (phase[t] = "info" /\ phase'[t] = "quiz"
                /\ countStudentSubmissions(submissions, info[t]) >= quiz[t][1].max_attempts)
                => /\ attemptCount'[t] = attemptCount[t]
                   /\ localStorage'.studentInfo = Some(info[t])]_vars

\* a student at the limit answering the quiz again
C20_Witness ==
    /\ phase["tab1"] = "quiz"
    /\ quiz["tab1"] # Null
    /\ countStudentSubmissions(submissions, info["tab1"]) >= quiz["tab1"][1].max_attempts
    /\ Len(submissions) >= 1

-----------------------------------------------------------------------------
(* Properties of the grading of large quizzes, checked under SpecGrade     *)

\* 100 * score / total rounded to the nearest integer, halves up
RoundHalfUpPercent(score, total) == (200 * score + total) \div (2 * total)

\* C11: every graded row has 0 <= score <= total, score the number of its
\* records with isCorrect, total the number of questions, and percentage the
\* round-half-up of 100 * score / total, or 0 when total is 0
C11_ScoreBound ==
    \A r \in 1..Len(submissions) :
        LET row == submissions[r] IN
        /\ 0 <= row.score /\ row.score <= row.total
        /\ row.score = Cardinality({i \in 1..Len(row.answers) : row.answers[i].isCorrect})
        /\ row.total = Len(quizRow.questions)
        /\ row.percentage = IF row.total = 0 THEN 0
                            ELSE RoundHalfUpPercent(row.score, row.total)
        /\ 0 <= row.percentage /\ row.percentage <= 100

=============================================================================
